---- MODULE Spec2Model ----
(***************************************************************************)
(* shopify-sku-sync: the inventory synchronisation core.                   *)
(*                                                                         *)
(* The repository holds three implementations of the webhook server:       *)
(*   "first" : src/index.js lines 1-388    (no lock, batches, late reply)  *)
(*   "class" : src/index.js lines 390-799  (SyncTracker class, stale-lock  *)
(*             reclamation, periodic sweep, one truncated batch)           *)
(*   "bulk"  : src/unnamed/part_002        (early acknowledgment, lock     *)
(*             without reclamation, batched writes)                        *)
(* The variable `version` says which one a behaviour runs; it never        *)
(* changes.  Time passes in ticks; one tick is half of the anti-loop       *)
(* window.  Where the code stores Date.now() and later compares            *)
(* Date.now() - timestamp with a constant, the model stores the age        *)
(* Date.now() - timestamp itself, which every tick increases, and stops    *)
(* counting once the age is past every constant it is compared with.       *)
(* Network calls take an arbitrary number of ticks.                        *)
(***************************************************************************)
EXTENDS Integers, Sequences, FiniteSets, TLC

(***************************************************************************)
(* Bounds of the model                                                     *)
(***************************************************************************)
MaxExternal == 2      \* external (merchant) inventory changes
MaxRedeliver == 1     \* at-least-once redeliveries of a webhook
MaxQty == 1           \* quantities are 0..MaxQty
NSlots == 2           \* handler invocations in flight at once
MaxFaults == 1        \* remote calls that fail
MaxVariants == 52     \* longest variant list given to the update builder
MaxOrderQty == 1      \* line-item quantities are -MaxOrderQty..MaxOrderQty
MaxLineItems == 2     \* line items of an order

(***************************************************************************)
(* Program constants                                                       *)
(***************************************************************************)
batchSize == 50       \* syncTracker.batchSize
timeout == 2          \* syncTracker.timeout (10000/25000/30000 ms), in ticks
maxRetries == 3       \* lock attempts
SoftDeadline == 1     \* the 22000 ms check before the mutation, in ticks
SearchCap == 100      \* productVariants(first: 100, ...)
maxMapSize == 4       \* SyncTracker.maxMapSize (1000), scaled down
retries == 2          \* shopifyGraphQL(query, variables = {}, retries = 2)

Versions == {"first", "class", "bulk"}
HasLock(v) == v \in {"class", "bulk"}

(***************************************************************************)
(* SKUs are character sequences, so that trimming and the remote search    *)
(* are computed, not assumed.                                              *)
(***************************************************************************)
SP == " "

RECURSIVE TrimLeft(_)
TrimLeft(s) == IF s # <<>> /\ Head(s) = SP THEN TrimLeft(Tail(s)) ELSE s

RECURSIVE TrimRight(_)
TrimRight(s) ==
  IF s # <<>> /\ s[Len(s)] = SP THEN TrimRight(SubSeq(s, 1, Len(s) - 1)) ELSE s

\* String(sku).trim()
Trim(s) == TrimRight(TrimLeft(s))

IsPrefix(p, s) == Len(p) <= Len(s) /\ SubSeq(s, 1, Len(p)) = p

(***************************************************************************)
(* The remote catalog.  Items 1 and 2 are two variants sharing SKU "A";    *)
(* item 3 is the only variant of SKU "AB"; item 4 has no SKU.              *)
(***************************************************************************)
NoSku == <<>>
SkuA == <<"A">>
SkuAB == <<"A", "B">>
Items == 1..4
SkuOf(i) == CASE i = 1 -> SkuA [] i = 2 -> SkuA [] i = 3 -> SkuAB [] OTHER -> NoSku
Locs == {1}
Qty == 0..MaxQty

\* The variants that really share a SKU (exact equality).
Sharing(sku) == {i \in Items : SkuOf(i) # NoSku /\ SkuOf(i) = sku}

\* gid://shopify/InventoryItem/<n>, split at '/'.
Gid(n) == <<"gid:", "", "shopify", "InventoryItem", n>>
\* v.inventory_item_id.split('/').pop()
Pop(gid) == gid[Len(gid)]
\* v.inventory_item_id.endsWith(`/${id}`): the last '/'-separated piece is id
\* (an id holds no '/').
EndsWithId(gid, id) == Len(gid) >= 2 /\ gid[Len(gid)] = id

\* The search term sent to the remote: `sku:${normalizedSku}`.
SearchTerm(sku) == Trim(sku)

\* The remote variant search: a token/prefix match on the SKU field, not an
\* equality test, capped at SearchCap results, in catalog order.
RemoteMatches(term, i) == SkuOf(i) # NoSku /\ IsPrefix(term, SkuOf(i))

RECURSIVE SeqOfSet(_)
SeqOfSet(S) ==
  IF S = {} THEN <<>>
  ELSE LET m == CHOOSE x \in S : \A y \in S : x <= y
       IN  <<m>> \o SeqOfSet(S \ {m})

FirstN(s, n) == SubSeq(s, 1, IF Len(s) < n THEN Len(s) ELSE n)

RemoteSearch(term) ==
  FirstN(SeqOfSet({i \in Items : RemoteMatches(term, i)}), SearchCap)

\* findVariantsBySKU on a successful reply: no filtering after the query.
FindVariantsBySKU(sku) ==
  IF sku = NoSku THEN <<>>
  ELSE [k \in 1..Len(RemoteSearch(SearchTerm(sku))) |->
          [sku |-> SkuOf(RemoteSearch(SearchTerm(sku))[k]),
           inventory_item_id |-> Gid(RemoteSearch(SearchTerm(sku))[k])]]

\* The update set of the inventory-level-changed handler.
KeepFirst(variants, item) ==
  LET Other(v) == Pop(v.inventory_item_id) # item IN SelectSeq(variants, Other)
KeepClass(variants, item) ==
  LET Other(v) == ~EndsWithId(v.inventory_item_id, item)
  IN  FirstN(SelectSeq(variants, Other), batchSize)

Siblings(v, variants, item) ==
  IF v = "class" THEN KeepClass(variants, item) ELSE KeepFirst(variants, item)

BuildUpdates(v, variants, item, loc, q) ==
  [k \in 1..Len(Siblings(v, variants, item)) |->
     [inventoryItemId |-> Siblings(v, variants, item)[k].inventory_item_id,
      locationId |-> loc,
      quantity |-> q]]

Targets(updates) == {Pop(updates[k].inventoryItemId) : k \in 1..Len(updates)}

(***************************************************************************)
(* Finite maps (a JavaScript Map is a function with a growing domain).     *)
(***************************************************************************)
EmptyMap == <<>>
Put(f, k, v) == [x \in (DOMAIN f) \cup {k} |-> IF x = k THEN v ELSE f[x]]
Drop(f, k) == [x \in (DOMAIN f) \ {k} |-> f[x]]

\* An age is counted up to the point past which no comparison the version
\* makes can tell it apart: operation records are read with "< timeout" by all
\* versions and with "> timeout" by the sweep of "class"; lock timestamps are
\* stored by "class" and "bulk" and read by "class" ("> timeout").
OpsCap(v) == IF v = "class" THEN timeout + 1 ELSE timeout
LockCap(v) == IF HasLock(v) THEN timeout + 1 ELSE 0
Older(a, cap) == IF a < cap THEN a + 1 ELSE a

(***************************************************************************)
(* State                                                                   *)
(***************************************************************************)
VARIABLES
  version,          \* which implementation runs
  budget,           \* the scenario: how many external changes, duplicate
                    \* deliveries and remote failures it may hold,
                    \* whether time passes in it, and how many handlers
                    \* may be in flight at once
  level,            \* remote: available quantity of each inventory item
  pending,          \* webhooks emitted by the platform and not yet delivered
  handlers,         \* the handler invocation of each slot
  operations,       \* syncTracker.operations: key -> {timestamp, variantIds},
                    \*   the timestamp kept as the record's age
  timers,           \* pending setTimeout callbacks of markSync, with the
                    \*   ticks left until each fires
  processingQueue,  \* syncTracker.processingQueue: sku -> timestamp, kept as
                    \*   the lock's age, with the slot that set it (history)
  nExternal,        \* external changes made so far
  nRedeliver,       \* duplicate deliveries made so far
  nFaults,          \* remote failures so far
  gaveUp,           \* history: some handler dropped its event because the
                    \*   lock was unavailable or the soft deadline had passed
  marks,            \* history: event -> ticks since the last markSync made
                    \*   for it after a write that succeeded, while that is
                    \*   less than the timeout
  orderQueue,       \* order webhooks emitted and not yet delivered
  orderHandlers,    \* the order-handler invocation of each slot
  adjusted,         \* history: <<order id, topic, line item, offset>> -> how
                    \*   many times the remote applied that adjustment
  calc,             \* one evaluation of the update-set builder: its
                    \*   arguments and, once computed, its result
  request           \* one raw HTTP request to the inventory route: its
                    \*   signature header and body, and whether the route
                    \*   has taken it

orderVars == <<orderQueue, orderHandlers, adjusted>>

vars == <<version, budget, level, pending, handlers, operations, timers,
          processingQueue, nExternal, nRedeliver, nFaults, gaveUp, marks,
          orderVars, calc, request>>

Slots == 1..NSlots

Idle ==
  [pc |-> "idle", item |-> 0, loc |-> 0, q |-> 0, sku |-> NoSku,
   lockAcquired |-> FALSE, tries |-> 0, variants |-> <<>>, updates |-> <<>>,
   elapsed |-> 0, sent |-> 0, hasErrors |-> FALSE, wr |-> "none",
   inWindow |-> FALSE, outcome |-> "none", res |-> 0,
   requests |-> 0, hits |-> EmptyMap]

NoOrder == [id |-> 0]
OrderIdle ==
  [pc |-> "idle", order |-> NoOrder, idx |-> 0, variants |-> <<>>,
   updates |-> <<>>, reason |-> "", sent |-> 0, wr |-> "none",
   outcome |-> "none", res |-> 0]

Event(i, l, q) == [inventory_item_id |-> i, location_id |-> l, available |-> q]
EventOf(r) == Event(r.item, r.loc, r.q)

(***************************************************************************)
(* Sync Tracker                                                            *)
(***************************************************************************)
\* `${sku}:${locationId}:${quantity}` (the SKU as received, not trimmed)
Key(sku, loc, q) == <<sku, loc, q>>

\* The window test written with <=.
IsRecentSyncInclusive(ops, sku, loc, q) ==
  /\ Key(sku, loc, q) \in DOMAIN ops
  /\ ops[Key(sku, loc, q)].age <= timeout

\* syncInfo && (now - syncInfo.timestamp) < this.timeout
IsRecentSync(ops, sku, loc, q) ==
  /\ Key(sku, loc, q) \in DOMAIN ops
  /\ ops[Key(sku, loc, q)].age < timeout

\* A record that is there is kept as it is.
MarkSyncOpsKeepFirst(ops, sku, loc, q, ids) ==
  IF Key(sku, loc, q) \in DOMAIN ops THEN ops
  ELSE Put(ops, Key(sku, loc, q), [age |-> 0, variantIds |-> ids])

\* markSync: operations.set(key, {timestamp: Date.now(), variantIds}) ...
MarkSyncOps(ops, sku, loc, q, ids) ==
  Put(ops, Key(sku, loc, q), [age |-> 0, variantIds |-> ids])

\* ... and setTimeout(() => operations.delete(key), this.timeout)
MarkSyncTimers(tm, sku, loc, q) ==
  tm \cup {[key |-> Key(sku, loc, q), left |-> timeout]}

\* One pass of acquireLock over the lock map: the lock can be taken when the
\* SKU has no entry or ("class") when its entry is older than the timeout.
LockFree(pq, sku) == sku \notin DOMAIN pq
LockStale(v, pq, sku) ==
  v = "class" /\ sku \in DOMAIN pq /\ pq[sku].age > timeout
CanTake(v, pq, sku) == LockFree(pq, sku) \/ LockStale(v, pq, sku)
Take(pq, sku, h) == Put(pq, sku, [age |-> 0, by |-> h])

\* releaseLock(sku)
ReleaseLock(pq, sku) == Drop(pq, sku)

\* The release placed at the end of the try block instead: reached only by an
\* invocation that built an update set and sent it.
FinallyAfterWrite(pq, r) ==
  IF r.lockAcquired /\ r.sku # NoSku /\ r.updates # <<>>
  THEN ReleaseLock(pq, r.sku) ELSE pq

\* The finally block: if (lockAcquired && sku) releaseLock(sku).
Finally(pq, r) ==
  IF r.lockAcquired /\ r.sku # NoSku THEN ReleaseLock(pq, r.sku) ELSE pq

\* After an attempt that found the lock busy: sleep and try again, or give up.
\* "bulk" sleeps after each of its three attempts; "class" sleeps only between.
SleepsAfter(v, attempt) ==
  IF v = "bulk" THEN attempt <= maxRetries ELSE attempt < maxRetries

\* The check written as "no variant at all".
TooFewNone(variants) == Len(variants) < 1

\* if (variants.length <= 1) return
TooFew(variants) == Len(variants) <= 1

(***************************************************************************)
(* The platform                                                            *)
(***************************************************************************)
\* The scenarios explored: every kind of event up to its bound, but not all
\* kinds at their bounds at once.
Profiles ==
  { [ext |-> MaxExternal, dup |-> 0, fault |-> 0, time |-> FALSE, slots |-> 1,
     echo |-> FALSE],
    [ext |-> 1, dup |-> MaxRedeliver, fault |-> 0, time |-> TRUE, slots |-> NSlots,
     echo |-> FALSE],
    [ext |-> 1, dup |-> 0, fault |-> MaxFaults, time |-> TRUE, slots |-> NSlots,
     echo |-> FALSE] }

\* One external change, no duplicate and no failure, and a platform that
\* emits a webhook for every level a mutation sets, changed or not.
EchoProfile ==
  [ext |-> 1, dup |-> 0, fault |-> 0, time |-> TRUE, slots |-> NSlots,
   echo |-> TRUE]

\* No order webhook exists, no evaluation of the update builder is set up and
\* no raw request is under way.
NoCalc == [stage |-> "none"]
NoRequest == [stage |-> "none"]
OrdersOff ==
  /\ orderQueue = {}
  /\ orderHandlers = [h \in Slots |-> OrderIdle]
  /\ adjusted = EmptyMap

Init ==
  /\ version \in Versions
  /\ budget \in Profiles
  /\ OrdersOff
  /\ calc = NoCalc
  /\ request = NoRequest
  /\ level = [i \in Items |-> 0]
  /\ pending = {}
  /\ handlers = [h \in Slots |-> Idle]
  /\ operations = EmptyMap
  /\ timers = {}
  /\ processingQueue = EmptyMap
  /\ nExternal = 0
  /\ nRedeliver = 0
  /\ nFaults = 0
  /\ gaveUp = FALSE
  /\ marks = EmptyMap

\* Freeing a slot is bookkeeping of the model: it happens at once.
NoneDone == \A h \in Slots : handlers[h].pc # "done"
\* A setTimeout callback that is due runs before anything else does.
Settled == NoneDone /\ \A t \in timers : t.left > 0

\* A merchant (or the platform itself) changes the quantity of one item; the
\* platform emits inventory_levels/update for it.
External(i, l, q) ==
  /\ Settled
  /\ nExternal < budget.ext
  /\ level[i] # q
  /\ level' = [level EXCEPT ![i] = q]
  /\ pending' = pending \cup {Event(i, l, q)}
  /\ nExternal' = nExternal + 1
  /\ UNCHANGED <<orderVars, calc, request>>
  /\ UNCHANGED <<version, budget, handlers, operations, timers,
                 processingQueue, nRedeliver, nFaults, marks, gaveUp>>

\* One tick passes.  A due setTimeout callback runs before the next tick.
Tick ==
  /\ Settled
  /\ budget.time
  /\ operations' = [k \in DOMAIN operations |->
                      [operations[k] EXCEPT !.age = Older(@, OpsCap(version))]]
  /\ processingQueue' = [k \in DOMAIN processingQueue |->
                      [processingQueue[k] EXCEPT !.age = Older(@, LockCap(version))]]
  /\ timers' = {[t EXCEPT !.left = @ - 1] : t \in timers}
  /\ marks' = [e \in {x \in DOMAIN marks : marks[x] + 1 < timeout} |-> marks[e] + 1]
  /\ handlers' = [h \in Slots |->
       IF version = "class" /\ handlers[h].pc \notin {"idle", "done"}
       THEN [handlers[h] EXCEPT !.elapsed = Older(@, SoftDeadline + 1)] ELSE handlers[h]]
  /\ UNCHANGED <<orderVars, calc, request>>
  /\ UNCHANGED <<version, budget, level, pending, nExternal, nRedeliver,
                 nFaults, gaveUp>>

\* The setTimeout callback of markSync: this.operations.delete(key).
TimerFire(t) ==
  /\ NoneDone
  /\ t \in timers
  /\ t.left = 0
  /\ operations' = Drop(operations, t.key)
  /\ timers' = timers \ {t}
  /\ UNCHANGED <<orderVars, calc, request>>
  /\ UNCHANGED <<version, budget, level, pending, handlers, processingQueue,
                 nExternal, nRedeliver, nFaults, marks, gaveUp>>

(***************************************************************************)
(* POST /webhooks/inventory_levels/update                                  *)
(***************************************************************************)
FirstIdle == CHOOSE h \in Slots : handlers[h].pc = "idle" /\
                                  \A g \in Slots : handlers[g].pc = "idle" => h <= g

Done(r, outcome, res) ==
  [r EXCEPT !.pc = "done", !.outcome = outcome,
            !.res = IF r.res = 0 THEN res ELSE r.res]

\* The handler of an event that passed verification and validation, at its
\* first await (getInventoryItem); the bulk version has answered already.
Accepted(v, e) ==
  [Idle EXCEPT !.pc = "lookup", !.item = e.inventory_item_id,
               !.loc = e.location_id, !.q = e.available,
               !.res = IF v = "bulk" THEN 200 ELSE 0]

\* The request arrives with a valid signature and payload; the handler runs to
\* its first await (getInventoryItem).  dup: the platform will send it again.
Deliver(e, dup) ==
  /\ Settled
  /\ e \in pending
  /\ \E h \in Slots : handlers[h].pc = "idle"
  /\ Cardinality({h \in Slots : handlers[h].pc # "idle"}) < budget.slots
  /\ dup => nRedeliver < budget.dup
  /\ pending' = IF dup THEN pending ELSE pending \ {e}
  /\ nRedeliver' = IF dup THEN nRedeliver + 1 ELSE nRedeliver
  /\ handlers' = [handlers EXCEPT ![FirstIdle] = Accepted(version, e)]
  /\ UNCHANGED <<orderVars, calc, request>>
  /\ UNCHANGED <<version, budget, level, operations, timers, processingQueue,
                 nExternal, nFaults, marks, gaveUp>>

\* The lock's unavailability surfacing as an error of the handler.
GiveUpThrowing(r) == Done(r, "threw", 500)

\* if (!lockAcquired) return, answering 200 where no answer was sent yet.
GiveUp(r) == Done(r, "locked", 200)

\* One pass of acquireLock by handler h, whose record is r.
AttemptLock(h, r) ==
  IF CanTake(version, processingQueue, r.sku)
  THEN /\ processingQueue' = Take(processingQueue, r.sku, h)
       /\ handlers' = [handlers EXCEPT ![h] =
            [r EXCEPT !.pc = "fetch", !.lockAcquired = TRUE, !.tries = r.tries + 1]]
  ELSE /\ processingQueue' = processingQueue
       /\ handlers' = [handlers EXCEPT ![h] =
            IF SleepsAfter(version, r.tries + 1)
            THEN [r EXCEPT !.pc = "lockwait", !.tries = r.tries + 1]
            ELSE GiveUp([r EXCEPT !.tries = r.tries + 1])]

\* Was a markSync made for this very event, after a successful write, less than
\* `timeout` ago?
InWindow(r) == EventOf(r) \in DOMAIN marks /\ marks[EventOf(r)] < timeout

\* The test left out: every item goes on to the gate and the lock.
NoSkuFoundNever(sku) == FALSE

\* if (!sku) return
NoSkuFound(sku) == sku = NoSku

\* getInventoryItem answers; then the isRecentSync gate and the first lock pass.
LookupReply(h, ok) ==
  LET r0 == handlers[h]
      r  == [r0 EXCEPT !.sku = IF ok THEN SkuOf(r0.item) ELSE NoSku]
  IN
  /\ Settled
  /\ r0.pc = "lookup"
  /\ ~ok => nFaults < budget.fault
  /\ nFaults' = IF ok THEN nFaults ELSE nFaults + 1
  /\ IF ~ok /\ version # "class"
     THEN \* shopifyGraphQL throws; caught at the top of the handler
          /\ handlers' = [handlers EXCEPT ![h] = Done(r, "threw", 500)]
          /\ processingQueue' = processingQueue
     ELSE IF NoSkuFound(r.sku)
     THEN /\ handlers' = [handlers EXCEPT ![h] = Done(r, "nosku", 200)]
          /\ processingQueue' = processingQueue
     ELSE IF IsRecentSync(operations, r.sku, r.loc, r.q)
     THEN /\ handlers' = [handlers EXCEPT ![h] = Done(r, "recent", 200)]
          /\ processingQueue' = processingQueue
     ELSE IF HasLock(version)
     THEN AttemptLock(h, [r EXCEPT !.inWindow = InWindow(r)])
     ELSE /\ handlers' = [handlers EXCEPT ![h] =
               [r EXCEPT !.pc = "fetch", !.inWindow = InWindow(r)]]
          /\ processingQueue' = processingQueue
  /\ gaveUp' = (gaveUp \/ handlers'[h].outcome \in {"locked", "timeout"})
  /\ UNCHANGED <<orderVars, calc, request>>
  /\ UNCHANGED <<version, budget, level, pending, operations, timers,
                 nExternal, nRedeliver, marks>>

\* The 1000 ms sleep of a busy acquireLock ends.
LockWake(h) ==
  LET r == handlers[h] IN
  /\ Settled
  /\ r.pc = "lockwait"
  /\ IF r.tries < maxRetries
     THEN AttemptLock(h, r)
     ELSE /\ handlers' = [handlers EXCEPT ![h] = GiveUp(r)]
          /\ processingQueue' = processingQueue
  /\ gaveUp' = (gaveUp \/ handlers'[h].outcome \in {"locked", "timeout"})
  /\ UNCHANGED <<orderVars, calc, request>>
  /\ UNCHANGED <<version, budget, level, pending, operations, timers,
                 nExternal, nRedeliver, nFaults, marks>>

\* The check left out.
PastDeadlineNever(v, r) == FALSE

\* Date.now() - startTime > 22000, checked before the mutation ("class").
PastDeadline(v, r) == v = "class" /\ r.elapsed > SoftDeadline

\* findVariantsBySKU answers; the handler builds the update set and sends the
\* first mutation, or leaves.
FetchReply(h, ok) ==
  LET r0 == handlers[h]
      vs == IF ok THEN FindVariantsBySKU(r0.sku) ELSE <<>>
      ups == BuildUpdates(version, vs, r0.item, r0.loc, r0.q)
      r  == [r0 EXCEPT !.variants = vs]
      out == IF ~ok /\ version # "class" THEN Done(r, "threw", 500)
             ELSE IF TooFew(vs) THEN Done(r, "noSiblings", 200)
             ELSE IF Len(ups) = 0 THEN Done(r, "empty", 200)
             ELSE IF PastDeadline(version, r) THEN Done(r, "timeout", 200)
             ELSE [r EXCEPT !.pc = "write", !.updates = ups]
  IN
  /\ Settled
  /\ r0.pc = "fetch"
  /\ ~ok => nFaults < budget.fault
  /\ nFaults' = IF ok THEN nFaults ELSE nFaults + 1
  /\ handlers' = [handlers EXCEPT ![h] = out]
  /\ processingQueue' = IF out.pc = "done" THEN Finally(processingQueue, r)
                        ELSE processingQueue
  /\ gaveUp' = (gaveUp \/ handlers'[h].outcome \in {"locked", "timeout"})
  /\ UNCHANGED <<orderVars, calc, request>>
  /\ UNCHANGED <<version, budget, level, pending, operations, timers,
                 nExternal, nRedeliver, marks>>

\* The batch being submitted: chunk(updates, batchSize)[sent / batchSize].
Batch(r) ==
  SubSeq(r.updates, r.sent + 1,
         IF Len(r.updates) < r.sent + batchSize THEN Len(r.updates)
         ELSE r.sent + batchSize)

\* History: how many requests of the invocation carried each inventory item.
Counted(hits, batch) ==
  [i \in DOMAIN hits \cup Targets(batch) |->
     (IF i \in DOMAIN hits THEN hits[i] ELSE 0)
     + Cardinality({k \in 1..Len(batch) : Pop(batch[k].inventoryItemId) = i})]

\* The remote handles inventorySetOnHandQuantities: it applies the batch and
\* emits inventory_levels/update for every level it changed, or rejects the
\* batch with userErrors, or the call fails.
RemoteApply(h, result) ==
  LET r == handlers[h]
      tg == Targets(Batch(r))
  IN
  /\ Settled
  /\ r.pc = "write"
  /\ result # "ok" => nFaults < budget.fault
  /\ result = "ok" => r.q \in Qty
  /\ nFaults' = IF result = "ok" THEN nFaults ELSE nFaults + 1
  /\ IF result = "ok"
     THEN /\ level' = [i \in DOMAIN level |-> IF i \in tg THEN r.q ELSE level[i]]
          /\ pending' = pending \cup
               {Event(i, r.loc, r.q) :
                  i \in {j \in tg \cap DOMAIN level :
                            budget.echo \/ level[j] # r.q}}
     ELSE UNCHANGED <<level, pending>>
  /\ handlers' = [handlers EXCEPT ![h] =
       [r EXCEPT !.pc = "applied", !.wr = result,
                 !.requests = r.requests + 1,
                 !.hits = Counted(r.hits, Batch(r))]]
  /\ UNCHANGED <<orderVars, calc, request>>
  /\ UNCHANGED <<version, budget, operations, timers, processingQueue,
                 nExternal, nRedeliver, marks, gaveUp>>

\* The loop stopped by a per-item error list as well.
AbortsOnErrors(wr) == wr # "ok"

\* What ends the batch loop early: only a call that throws.
Aborts(wr) == wr = "threw"

\* Does the handler call markSync once its last batch is answered?
Records(v, hasErrors) == IF v = "bulk" THEN TRUE ELSE ~hasErrors

\* The mutation's answer reaches the handler: next batch, or markSync and the
\* finally block.
WriteReply(h) ==
  LET r0 == handlers[h]
      r  == [r0 EXCEPT !.sent = r0.sent + Len(Batch(r0)),
                       !.hasErrors = r0.hasErrors \/ r0.wr = "userErrors"]
      ids == {r.updates[k].inventoryItemId : k \in 1..Len(r.updates)}
      last == r.sent >= Len(r.updates)
      mark == ~Aborts(r0.wr) /\ last /\ Records(version, r.hasErrors)
  IN
  /\ Settled
  /\ r0.pc = "applied"
  /\ IF Aborts(r0.wr)
     THEN handlers' = [handlers EXCEPT ![h] = Done(r0, "threw", 500)]
     ELSE IF ~last
     THEN handlers' = [handlers EXCEPT ![h] = [r EXCEPT !.pc = "write", !.wr = "none"]]
     ELSE handlers' = [handlers EXCEPT ![h] =
            Done(r, IF r.hasErrors THEN "userErrors" ELSE "synced", 200)]
  /\ operations' = IF mark THEN MarkSyncOps(operations, r.sku, r.loc, r.q, ids)
                   ELSE operations
  /\ timers' = IF mark THEN MarkSyncTimers(timers, r.sku, r.loc, r.q)
               ELSE timers
  /\ marks' = IF mark /\ ~r.hasErrors THEN Put(marks, EventOf(r), 0) ELSE marks
  /\ processingQueue' = IF Aborts(r0.wr) \/ last THEN Finally(processingQueue, r)
                        ELSE processingQueue
  /\ UNCHANGED <<orderVars, calc, request>>
  /\ UNCHANGED <<version, budget, level, pending, nExternal, nRedeliver,
                 nFaults, gaveUp>>

\* The invocation is over; its slot is free again.
Retire(h) ==
  /\ handlers[h].pc = "done"
  /\ handlers' = [handlers EXCEPT ![h] = Idle]
  /\ UNCHANGED <<orderVars, calc, request>>
  /\ UNCHANGED <<version, budget, level, pending, operations, timers,
                 processingQueue, nExternal, nRedeliver, nFaults, marks, gaveUp>>

\* SyncTracker.cleanup, run by setInterval ("class" only): entries older than
\* the timeout leave both maps; then the emergency cleanup.
SweepOps(ops) == [k \in {x \in DOMAIN ops : ~(ops[x].age > timeout)} |-> ops[k]]
SweepLocks(pq) == [k \in {x \in DOMAIN pq : ~(pq[x].age > timeout)} |-> pq[k]]

\* The emergency cleanup: with more than maxMapSize records left, the
\* floor(maxMapSize / 2) with the smallest timestamps (the largest ages) go.
RECURSIVE DropOldest(_, _)
DropOldest(ops, n) ==
  IF n = 0 \/ DOMAIN ops = {} THEN ops
  ELSE LET k == CHOOSE x \in DOMAIN ops :
                   \A y \in DOMAIN ops : ops[x].age >= ops[y].age
       IN  DropOldest(Drop(ops, k), n - 1)
Emergency(ops) ==
  IF Cardinality(DOMAIN ops) > maxMapSize
  THEN DropOldest(ops, maxMapSize \div 2) ELSE ops

Cleanup ==
  /\ Settled
  /\ version = "class"
  /\ operations' = Emergency(SweepOps(operations))
  /\ processingQueue' = SweepLocks(processingQueue)
  /\ UNCHANGED <<orderVars, calc, request>>
  /\ UNCHANGED <<version, budget, level, pending, handlers, timers, nExternal,
                 nRedeliver, nFaults, marks, gaveUp>>

Next ==
  \/ \E i \in Items, l \in Locs, q \in Qty : External(i, l, q)
  \/ Tick
  \/ \E t \in timers : TimerFire(t)
  \/ \E e \in pending, dup \in BOOLEAN : Deliver(e, dup)
  \/ \E h \in Slots, ok \in BOOLEAN : LookupReply(h, ok)
  \/ \E h \in Slots : LockWake(h)
  \/ \E h \in Slots, ok \in BOOLEAN : FetchReply(h, ok)
  \/ \E h \in Slots, result \in {"ok", "userErrors", "threw"} : RemoteApply(h, result)
  \/ \E h \in Slots : WriteReply(h)
  \/ \E h \in Slots : Retire(h)
  \/ Cleanup

Spec == Init /\ [][Next]_vars

\* Time passes (in the scenarios that have time), a due setTimeout callback
\* runs, and a finished invocation leaves.
Fairness ==
  /\ WF_vars(Tick)
  /\ WF_vars(\E t \in timers : TimerFire(t))
  /\ WF_vars(\E h \in Slots : Retire(h))

TimedInit == Init /\ budget.time

FairSpec == TimedInit /\ [][Next]_vars /\ Fairness

\* The echo scenario, in which moreover every webhook is delivered at some
\* time and every remote call is answered.
EchoInit ==
  /\ version \in Versions
  /\ budget = EchoProfile
  /\ OrdersOff
  /\ calc = NoCalc
  /\ request = NoRequest
  /\ level = [i \in Items |-> 0]
  /\ pending = {}
  /\ handlers = [h \in Slots |-> Idle]
  /\ operations = EmptyMap
  /\ timers = {}
  /\ processingQueue = EmptyMap
  /\ nExternal = 0
  /\ nRedeliver = 0
  /\ nFaults = 0
  /\ gaveUp = FALSE
  /\ marks = EmptyMap

\* FetchReply is enabled exactly when a handler waits for the variant list
\* and nothing more urgent is due; its weak fairness is written out with that.
FetchDue == Settled /\ \E h \in Slots : handlers[h].pc = "fetch"

Progress ==
  /\ WF_vars(\E e \in pending, dup \in BOOLEAN : Deliver(e, dup))
  /\ WF_vars(\E h \in Slots, ok \in BOOLEAN : LookupReply(h, ok))
  /\ WF_vars(\E h \in Slots : LockWake(h))
  /\ \/ []<>(~FetchDue)
     \/ []<><<\E h \in Slots, ok \in BOOLEAN : FetchReply(h, ok)>>_vars
  /\ WF_vars(\E h \in Slots, result \in {"ok", "userErrors", "threw"} :
                RemoteApply(h, result))
  /\ WF_vars(\E h \in Slots : WriteReply(h))

EchoSpec == EchoInit /\ [][Next]_vars /\ Fairness /\ Progress

(***************************************************************************)
(* POST /webhooks/orders/create and POST /webhooks/orders/cancelled        *)
(* ("first" and "bulk"; "class" has no order routes)                       *)
(***************************************************************************)
OrderVersions == {"first", "bulk"}
Topics == {"orders/create", "orders/cancelled"}

\* A line item's SKU as the shop sends it: absent, exact, or padded.
SkuAPadded == <<SP, "A">>
OrderSkus == {NoSku, SkuA, SkuAPadded, SkuAB}
OrderQty == (0 - MaxOrderQty)..MaxOrderQty
Lines == [sku : OrderSkus, quantity : OrderQty]
LineItems == UNION {[1..n -> Lines] : n \in 1..MaxLineItems}

\* One order (id 1); 0 stands for an absent location.
Orders ==
  {[id |-> 1, topic |-> t, location_id |-> l, fulfillment_location_id |-> f,
    line_items |-> ls] :
      t \in Topics, l \in {0, 1}, f \in {0, 1}, ls \in LineItems}

\* order.location_id || order.fulfillments[0]?.location_id
Location(order) ==
  IF order.location_id # 0 THEN order.location_id
  ELSE order.fulfillment_location_id

\* if (!sku || !location_id) continue        ("first")
\* if (!sku || !location_id || !quantity) continue   ("bulk")
Skips(v, order, line) ==
  \/ line.sku = NoSku
  \/ Location(order) = 0
  \/ v = "bulk" /\ line.quantity = 0

\* The first line item from k on that the loop does not skip (Len + 1: none).
RECURSIVE NextLine(_, _, _)
NextLine(v, order, k) ==
  IF k > Len(order.line_items) THEN k
  ELSE IF Skips(v, order, order.line_items[k]) THEN NextLine(v, order, k + 1)
  ELSE k

\* Math.abs
Abs(x) == IF x < 0 THEN 0 - x ELSE x

\* Math.abs applied on the wrong side: the sale delta taken as -quantity.
DeltaNoAbs(topic, quantity) ==
  IF topic = "orders/create" THEN 0 - quantity ELSE Abs(quantity)

\* availableDelta: -Math.abs(quantity) / Math.abs(quantity)
Delta(topic, quantity) ==
  IF topic = "orders/create" THEN 0 - Abs(quantity) ELSE Abs(quantity)

Reason(topic) ==
  IF topic = "orders/create" THEN "sale" ELSE "return_or_cancel"

\* The cancellation built like the sale.
OrderUpdatesSale(topic, variants, loc, quantity) ==
  [k \in 1..Len(variants) |->
     [inventoryItemId |-> variants[k].inventory_item_id,
      locationId |-> loc,
      availableDelta |-> Delta("orders/create", quantity)]]

\* variants.map(v => ({inventoryItemId, locationId, availableDelta}))
OrderUpdates(topic, variants, loc, quantity) ==
  [k \in 1..Len(variants) |->
     [inventoryItemId |-> variants[k].inventory_item_id,
      locationId |-> loc,
      availableDelta |-> Delta(topic, quantity)]]

FirstIdleOrder ==
  CHOOSE h \in Slots : orderHandlers[h].pc = "idle" /\
                       \A g \in Slots : orderHandlers[g].pc = "idle" => h <= g

\* The loop moves to line item k or, past the last one, the handler answers.
Proceed(r, k) ==
  IF k > Len(r.order.line_items)
  THEN [r EXCEPT !.pc = "done", !.outcome = "complete", !.idx = k,
                 !.res = IF r.res = 0 THEN 200 ELSE r.res]
  ELSE [r EXCEPT !.pc = "find", !.idx = k, !.variants = <<>>,
                 !.updates = <<>>, !.sent = 0, !.wr = "none"]

\* The catch block: "first" answers 500, "bulk" has answered already.
Threw(r) ==
  [r EXCEPT !.pc = "done", !.outcome = "threw",
            !.res = IF r.res = 0 THEN 500 ELSE r.res]

trackerVars ==
  <<handlers, operations, timers, processingQueue, nExternal, gaveUp, marks>>

NoOrderDone == \A h \in Slots : orderHandlers[h].pc # "done"

\* An order webhook arrives (signature and JSON valid); the handler runs to
\* its first findVariantsBySKU.  dup: the platform will send it again.
OrderDeliver(o, dup) ==
  /\ NoOrderDone
  /\ o \in orderQueue
  /\ \E h \in Slots : orderHandlers[h].pc = "idle"
  /\ Cardinality({h \in Slots : orderHandlers[h].pc # "idle"}) < budget.slots
  /\ dup => nRedeliver < budget.dup
  /\ orderQueue' = IF dup THEN orderQueue ELSE orderQueue \ {o}
  /\ nRedeliver' = IF dup THEN nRedeliver + 1 ELSE nRedeliver
  /\ orderHandlers' = [orderHandlers EXCEPT ![FirstIdleOrder] =
       Proceed([OrderIdle EXCEPT !.order = o,
                                 !.res = IF version = "bulk" THEN 200 ELSE 0],
               NextLine(version, o, 1))]
  /\ UNCHANGED <<version, budget, level, pending, nFaults, adjusted, calc,
                 request, trackerVars>>

\* findVariantsBySKU answers for the current line item.
OrderFindReply(h, ok) ==
  LET r == orderHandlers[h]
      line == r.order.line_items[r.idx]
      vs == FindVariantsBySKU(line.sku)
  IN
  /\ NoOrderDone
  /\ r.pc = "find"
  /\ ~ok => nFaults < budget.fault
  /\ nFaults' = IF ok THEN nFaults ELSE nFaults + 1
  /\ orderHandlers' = [orderHandlers EXCEPT ![h] =
       IF ~ok THEN Threw(r)
       ELSE IF TooFew(vs)
       THEN Proceed([r EXCEPT !.variants = vs],
                    NextLine(version, r.order, r.idx + 1))
       ELSE [r EXCEPT !.pc = "adjust", !.variants = vs,
                      !.updates = OrderUpdates(r.order.topic, vs,
                                     Location(r.order), line.quantity),
                      !.reason = Reason(r.order.topic)]]
  /\ UNCHANGED <<version, budget, level, pending, nRedeliver, orderQueue,
                 adjusted, calc, request, trackerVars>>

\* The request being submitted: all of the update list in "first"; in "bulk"
\* chunk(updates, batchSize)[sent / batchSize].
OrderBatch(v, r) == IF v = "bulk" THEN Batch(r) ELSE r.updates

AdjustKey(r) == <<r.order.id, r.order.topic, r.idx, r.sent>>

\* The remote handles inventoryAdjustQuantities: it adds the deltas and emits
\* inventory_levels/update for every level it changed, or rejects the request
\* with userErrors, or the call fails.
OrderRemoteAdjust(h, result) ==
  LET r == orderHandlers[h]
      b == OrderBatch(version, r)
      DeltaFor(i) ==
        LET ks == {k \in 1..Len(b) : Pop(b[k].inventoryItemId) = i}
        IN  IF ks = {} THEN 0 ELSE b[CHOOSE k \in ks : TRUE].availableDelta
  IN
  /\ NoOrderDone
  /\ r.pc = "adjust"
  /\ result # "ok" => nFaults < budget.fault
  /\ nFaults' = IF result = "ok" THEN nFaults ELSE nFaults + 1
  /\ IF result = "ok"
     THEN /\ level' = [i \in Items |-> level[i] + DeltaFor(i)]
          /\ pending' = pending \cup
               {Event(i, Location(r.order), level[i] + DeltaFor(i)) :
                  i \in {j \in Items : DeltaFor(j) # 0}}
          /\ adjusted' = Put(adjusted, AdjustKey(r),
               IF AdjustKey(r) \in DOMAIN adjusted
               THEN adjusted[AdjustKey(r)] + 1 ELSE 1)
     ELSE UNCHANGED <<level, pending, adjusted>>
  /\ orderHandlers' = [orderHandlers EXCEPT ![h] =
       [r EXCEPT !.pc = "adjusted", !.wr = result]]
  /\ UNCHANGED <<version, budget, nRedeliver, orderQueue, calc, request, trackerVars>>

\* The mutation's answer reaches the handler: userErrors are logged; then the
\* next request of the line item, the next line item, or the end.
OrderAdjustReply(h) ==
  LET r0 == orderHandlers[h]
      r  == [r0 EXCEPT !.sent = r0.sent + Len(OrderBatch(version, r0))]
  IN
  /\ NoOrderDone
  /\ r0.pc = "adjusted"
  /\ orderHandlers' = [orderHandlers EXCEPT ![h] =
       IF r0.wr = "threw" THEN Threw(r0)
       ELSE IF r.sent < Len(r.updates)
       THEN [r EXCEPT !.pc = "adjust", !.wr = "none"]
       ELSE Proceed(r, NextLine(version, r.order, r.idx + 1))]
  /\ UNCHANGED <<version, budget, level, pending, nRedeliver, nFaults,
                 orderQueue, adjusted, calc, request, trackerVars>>

\* The invocation is over; its slot is free again.
OrderRetire(h) ==
  /\ orderHandlers[h].pc = "done"
  /\ orderHandlers' = [orderHandlers EXCEPT ![h] = OrderIdle]
  /\ UNCHANGED <<version, budget, level, pending, nRedeliver, nFaults,
                 orderQueue, adjusted, calc, request, trackerVars>>

InitOrders ==
  /\ version \in OrderVersions
  /\ budget \in Profiles
  /\ orderQueue \in {{o} : o \in Orders}
  /\ orderHandlers = [h \in Slots |-> OrderIdle]
  /\ adjusted = EmptyMap
  /\ calc = NoCalc
  /\ request = NoRequest
  /\ level = [i \in Items |-> 0]
  /\ pending = {}
  /\ handlers = [h \in Slots |-> Idle]
  /\ operations = EmptyMap
  /\ timers = {}
  /\ processingQueue = EmptyMap
  /\ nExternal = 0
  /\ nRedeliver = 0
  /\ nFaults = 0
  /\ gaveUp = FALSE
  /\ marks = EmptyMap

NextOrders ==
  \/ \E o \in orderQueue, dup \in BOOLEAN : OrderDeliver(o, dup)
  \/ \E h \in Slots, ok \in BOOLEAN : OrderFindReply(h, ok)
  \/ \E h \in Slots, result \in {"ok", "userErrors", "threw"} :
        OrderRemoteAdjust(h, result)
  \/ \E h \in Slots : OrderAdjustReply(h)
  \/ \E h \in Slots : OrderRetire(h)

SpecOrders == InitOrders /\ [][NextOrders]_vars

\* An order is created and cancelled: the platform sends orders/create and
\* orders/cancelled with the same order.
Cancelled(o) == [o EXCEPT !.topic = "orders/cancelled"]

InitRoundTrip ==
  /\ version \in OrderVersions
  /\ budget \in Profiles
  /\ orderQueue \in {{o, Cancelled(o)} : o \in {x \in Orders : x.topic = "orders/create"}}
  /\ orderHandlers = [h \in Slots |-> OrderIdle]
  /\ adjusted = EmptyMap
  /\ calc = NoCalc
  /\ request = NoRequest
  /\ level = [i \in Items |-> 0]
  /\ pending = {}
  /\ handlers = [h \in Slots |-> Idle]
  /\ operations = EmptyMap
  /\ timers = {}
  /\ processingQueue = EmptyMap
  /\ nExternal = 0
  /\ nRedeliver = 0
  /\ nFaults = 0
  /\ gaveUp = FALSE
  /\ marks = EmptyMap

SpecRoundTrip == InitRoundTrip /\ [][NextOrders]_vars

(***************************************************************************)
(* A purchase: the platform takes the quantity bought off the purchased    *)
(* variant itself, and sends inventory_levels/update for that variant and  *)
(* orders/create for the order.  Both routes are live.                     *)
(***************************************************************************)
\* Every level before the order, and the quantity bought.
PreOrder == MaxQty + MaxOrderQty
Bought == MaxOrderQty

\* One purchase, no duplicate and no failure; the webhooks of each route are
\* handled one at a time, so acquireLock succeeds at its first pass.
SaleProfile ==
  [ext |-> 1, dup |-> 0, fault |-> 0, time |-> TRUE, slots |-> 1,
   echo |-> FALSE]

SaleOrder(i) ==
  [id |-> 1, topic |-> "orders/create", location_id |-> 1,
   fulfillment_location_id |-> 0,
   line_items |-> <<[sku |-> SkuOf(i), quantity |-> Bought]>>]

InitSale ==
  /\ version \in OrderVersions
  /\ budget = SaleProfile
  /\ OrdersOff
  /\ calc = NoCalc
  /\ request = NoRequest
  /\ level = [i \in Items |-> PreOrder]
  /\ pending = {}
  /\ handlers = [h \in Slots |-> Idle]
  /\ operations = EmptyMap
  /\ timers = {}
  /\ processingQueue = EmptyMap
  /\ nExternal = 0
  /\ nRedeliver = 0
  /\ nFaults = 0
  /\ gaveUp = FALSE
  /\ marks = EmptyMap

\* A customer buys `Bought` units of item i at location 1.
Purchase(i) ==
  /\ Settled
  /\ nExternal < budget.ext
  /\ level' = [level EXCEPT ![i] = @ - Bought]
  /\ pending' = pending \cup {Event(i, 1, level[i] - Bought)}
  /\ orderQueue' = orderQueue \cup {SaleOrder(i)}
  /\ nExternal' = nExternal + 1
  /\ UNCHANGED <<orderHandlers, adjusted, calc, request>>
  /\ UNCHANGED <<version, budget, handlers, operations, timers,
                 processingQueue, nRedeliver, nFaults, marks, gaveUp>>

NextSale ==
  \/ \E i \in Sharing(SkuA) : Purchase(i)
  \/ Tick
  \/ \E t \in timers : TimerFire(t)
  \/ \E e \in pending, dup \in BOOLEAN : Deliver(e, dup)
  \/ \E h \in Slots, ok \in BOOLEAN : LookupReply(h, ok)
  \/ \E h \in Slots, ok \in BOOLEAN : FetchReply(h, ok)
  \/ \E h \in Slots, result \in {"ok", "userErrors", "threw"} : RemoteApply(h, result)
  \/ \E h \in Slots : WriteReply(h)
  \/ \E h \in Slots : Retire(h)
  \/ NextOrders

SpecSale == InitSale /\ [][NextSale]_vars

(***************************************************************************)
(* The update-set builder of the inventory-level-changed handler, on its   *)
(* own: a SKU with n variants (inventory items 1..n), one of them the      *)
(* trigger.                                                                *)
(***************************************************************************)
VariantList(n) ==
  [k \in 1..n |-> [sku |-> SkuA, inventory_item_id |-> Gid(k)]]

InitUpdates ==
  /\ version \in Versions
  /\ budget \in Profiles
  /\ OrdersOff
  /\ calc \in {[stage |-> "in", n |-> n, item |-> t, loc |-> l, q |-> q,
                updates |-> <<>>] :
                 n \in 2..MaxVariants, t \in 1..MaxVariants, l \in Locs, q \in Qty}
  /\ calc.item <= calc.n
  /\ request = NoRequest
  /\ level = [i \in Items |-> 0]
  /\ pending = {}
  /\ handlers = [h \in Slots |-> Idle]
  /\ operations = EmptyMap
  /\ timers = {}
  /\ processingQueue = EmptyMap
  /\ nExternal = 0
  /\ nRedeliver = 0
  /\ nFaults = 0
  /\ gaveUp = FALSE
  /\ marks = EmptyMap

ComputeUpdates ==
  /\ calc.stage = "in"
  /\ calc' = [calc EXCEPT !.stage = "out",
                !.updates = BuildUpdates(version, VariantList(calc.n),
                                         calc.item, calc.loc, calc.q)]
  /\ UNCHANGED <<version, budget, level, pending, nRedeliver, nFaults,
                 orderVars, request, trackerVars>>

NextUpdates == ComputeUpdates

SpecUpdates == InitUpdates /\ [][NextUpdates]_vars

(***************************************************************************)
(* The write pipeline of the inventory-level-changed handler, on its own:  *)
(* an invocation that has just built its update set for a SKU with n       *)
(* variants (inventory items 1..n) and submits its first request.          *)
(***************************************************************************)
AtWrite(v, n, t, l, q) ==
  [Idle EXCEPT !.pc = "write", !.item = t, !.loc = l, !.q = q, !.sku = SkuA,
               !.lockAcquired = HasLock(v), !.tries = IF HasLock(v) THEN 1 ELSE 0,
               !.variants = VariantList(n),
               !.updates = BuildUpdates(v, VariantList(n), t, l, q),
               !.res = IF v = "bulk" THEN 200 ELSE 0]

InitBatches ==
  /\ version \in Versions
  /\ budget \in {p \in Profiles : p.fault > 0}
  /\ OrdersOff
  /\ calc = NoCalc
  /\ request = NoRequest
  /\ \E n \in 2..MaxVariants, t \in 1..MaxVariants :
        /\ t <= n
        /\ level = [i \in 1..n |-> 0]
        /\ handlers = [h \in Slots |->
                         IF h = 1 THEN AtWrite(version, n, t, 1, MaxQty) ELSE Idle]
  /\ pending = {}
  /\ operations = EmptyMap
  /\ timers = {}
  /\ processingQueue =
        IF HasLock(version) THEN Take(EmptyMap, SkuA, 1) ELSE EmptyMap
  /\ nExternal = 0
  /\ nRedeliver = 0
  /\ nFaults = 0
  /\ gaveUp = FALSE
  /\ marks = EmptyMap

NextBatches ==
  \/ \E h \in Slots, result \in {"ok", "userErrors", "threw"} : RemoteApply(h, result)
  \/ \E h \in Slots : WriteReply(h)
  \/ \E h \in Slots : Retire(h)

SpecBatches == InitBatches /\ [][NextBatches]_vars

(***************************************************************************)
(* The synchronous head of the inventory route: signature verification,    *)
(* body parsing and payload validation of one raw request.                 *)
(***************************************************************************)
DigestLen == 2

\* JSON values as the handler sees them after JSON.parse.
Num(n) == [t |-> "number", v |-> n]
Str == [t |-> "string", v |-> 0]          \* a non-empty string such as "abc"
Undefined == [t |-> "undefined", v |-> 0]
Falsy(x) == x.t = "undefined" \/ (x.t = "number" /\ x.v = 0)

\* A raw body: text that is or is not JSON; if it is, its members in order.
Member(k, x) == [k |-> k, val |-> x]
Bodies ==
  {[wellFormed |-> TRUE, members |-> a \o b \o c] :
      a \in {<<>>, <<Member("inventory_item_id", Num(1))>>},
      b \in {<<>>, <<Member("location_id", Num(1))>>},
      c \in {<<>>} \cup {<<Member("available", x)>> : x \in {Num(q) : q \in Qty} \cup {Str}}}
  \cup {[wellFormed |-> FALSE, members |-> <<>>]}

\* body.key after JSON.parse: the last member of that name, else undefined.
Get(members, key) ==
  LET at == {k \in 1..Len(members) : members[k].k = key}
  IN  IF at = {} THEN Undefined
      ELSE members[CHOOSE k \in at : \A j \in at : j <= k].val

\* JSON.parse of the raw body; the first two versions fall back to {}.
Parse(raw) ==
  LET m == IF raw.wellFormed THEN raw.members ELSE <<>>
  IN  [inventory_item_id |-> Get(m, "inventory_item_id"),
       location_id |-> Get(m, "location_id"),
       available |-> Get(m, "available")]

MissingFields(p) ==
  Falsy(p.inventory_item_id) \/ Falsy(p.location_id) \/ p.available.t = "undefined"

\* The value the handler carries on as the quantity: the number, or the
\* non-numeric value itself (kept apart from every quantity).
NotNumeric == MaxQty + 1
Carried(x) == IF x.t = "number" THEN x.v ELSE NotNumeric
EventIn(p) ==
  Event(Carried(p.inventory_item_id), Carried(p.location_id), Carried(p.available))

\* HMAC-SHA256 of the raw body under the shared secret: a digest of fixed
\* length that depends on the body.
Hmac(raw) ==
  [k \in 1..DigestLen |->
     (Len(raw.members) + k + (IF raw.wellFormed THEN 1 ELSE 0)) % 2]

\* base64 text of a digest, and the bytes of a base64 text.
Alphabet == {"A", "B"}
Base64(d) == [k \in 1..Len(d) |-> IF d[k] = 0 THEN "A" ELSE "B"]
FromBase64(t) == [k \in 1..Len(t) |-> IF t[k] = "A" THEN 0 ELSE 1]

\* The X-Shopify-Hmac-Sha256 header: absent, or a text one shorter than, as
\* long as, or one longer than a digest's.
NoHeader == <<>>
Headers ==
  {NoHeader} \cup
  UNION {[1..n -> Alphabet] : n \in (DigestLen - 1)..(DigestLen + 1)}

\* crypto.timingSafeEqual: a RangeError for buffers of different lengths.
TimingSafeEqual(a, b) ==
  IF Len(a) # Len(b) THEN "throws"
  ELSE IF \A k \in 1..Len(a) : a[k] = b[k] THEN "true" ELSE "false"

\* try { ... } catch { return false }
Caught(x) == IF x = "throws" THEN "false" ELSE x

VerifyWebhook(v, raw, header) ==
  IF Len(header) = 0 THEN "false"
  ELSE CASE v = "first" -> TimingSafeEqual(Base64(Hmac(raw)), header)
         [] v = "class" -> Caught(TimingSafeEqual(Base64(Hmac(raw)), header))
         [] OTHER ->
              IF Len(FromBase64(header)) # Len(Hmac(raw)) THEN "false"
              ELSE Caught(TimingSafeEqual(Hmac(raw), FromBase64(header)))

\* The route up to its first await, on one raw request.
Handle(v, header, raw) ==
  LET verified == VerifyWebhook(v, raw, header)
      p == Parse(raw)
  IN  IF verified = "throws" THEN Done(Idle, "threw", 500)
      ELSE IF verified = "false" THEN Done(Idle, "unauthorized", 401)
      ELSE IF v = "bulk"
           THEN IF ~raw.wellFormed THEN Done(Idle, "invalid", 400)
                ELSE IF MissingFields(p) THEN Done(Idle, "invalid", 200)
                ELSE Accepted(v, EventIn(p))
           ELSE IF MissingFields(p) THEN Done(Idle, "invalid", 400)
                ELSE Accepted(v, EventIn(p))

Arrive ==
  /\ Settled
  /\ request.stage = "sent"
  /\ \E h \in Slots : handlers[h].pc = "idle"
  /\ request' = [request EXCEPT !.stage = "taken"]
  /\ handlers' = [handlers EXCEPT ![FirstIdle] =
                    Handle(version, request.header, request.rawBody)]
  /\ UNCHANGED <<orderVars, calc>>
  /\ UNCHANGED <<version, budget, level, pending, operations, timers,
                 processingQueue, nExternal, nRedeliver, nFaults, marks, gaveUp>>

InitIntake ==
  /\ version \in Versions
  /\ budget \in {p \in Profiles : p.fault > 0}
  /\ OrdersOff
  /\ calc = NoCalc
  /\ request \in {[stage |-> "sent", header |-> h, rawBody |-> b] :
                     h \in Headers, b \in Bodies}
  /\ level = [i \in Items |-> 0]
  /\ pending = {}
  /\ handlers = [h \in Slots |-> Idle]
  /\ operations = EmptyMap
  /\ timers = {}
  /\ processingQueue = EmptyMap
  /\ nExternal = 0
  /\ nRedeliver = 0
  /\ nFaults = 0
  /\ gaveUp = FALSE
  /\ marks = EmptyMap

NextIntake ==
  \/ Arrive
  \/ \E h \in Slots, ok \in BOOLEAN : LookupReply(h, ok)
  \/ \E h \in Slots, ok \in BOOLEAN : FetchReply(h, ok)
  \/ \E h \in Slots, result \in {"ok", "userErrors", "threw"} : RemoteApply(h, result)
  \/ \E h \in Slots : WriteReply(h)
  \/ \E h \in Slots : Retire(h)

SpecIntake == InitIntake /\ [][NextIntake]_vars

(***************************************************************************)
(* syncTracker.markSync on its own: a bounded series of calls, with time   *)
(* passing and the scheduled deletes firing in between.                    *)
(***************************************************************************)
MaxCalls == 3

\* The arguments of a call: (sku, locationId, quantity, variantIds).
IdSets == {{Gid(2)}, {Gid(1), Gid(2)}}
MarkArgs == [sku : {SkuA}, loc : Locs, q : Qty, ids : IdSets]

InitMarkSync ==
  /\ version \in Versions
  /\ budget \in {p \in Profiles : p.time}
  /\ OrdersOff
  /\ calc = [stage |-> "marking", n |-> 0]
  /\ request = NoRequest
  /\ level = [i \in Items |-> 0]
  /\ pending = {}
  /\ handlers = [h \in Slots |-> Idle]
  /\ operations = EmptyMap
  /\ timers = {}
  /\ processingQueue = EmptyMap
  /\ nExternal = 0
  /\ nRedeliver = 0
  /\ nFaults = 0
  /\ gaveUp = FALSE
  /\ marks = EmptyMap

MarkSync(a) ==
  /\ Settled
  /\ calc.stage = "marking"
  /\ calc.n < MaxCalls
  /\ operations' = MarkSyncOps(operations, a.sku, a.loc, a.q, a.ids)
  /\ timers' = MarkSyncTimers(timers, a.sku, a.loc, a.q)
  /\ calc' = [stage |-> "marking", n |-> calc.n + 1, last |-> a]
  /\ UNCHANGED <<orderVars, request>>
  /\ UNCHANGED <<version, budget, level, pending, handlers, processingQueue,
                 nExternal, nRedeliver, nFaults, marks, gaveUp>>

NextMarkSync ==
  \/ \E a \in MarkArgs : MarkSync(a)
  \/ Tick
  \/ \E t \in timers : TimerFire(t)

SpecMarkSync == InitMarkSync /\ [][NextMarkSync]_vars

(***************************************************************************)
(* SyncTracker.cleanup on its own ("class"): the periodic sweep run over   *)
(* trackers of several sizes, with or without a handler holding a lock.    *)
(***************************************************************************)
\* How many records the map holds when the sweep runs: none, one, up to and
\* just past maxMapSize, up to and just past one and a half times that.
Sizes ==
  {0, 1, maxMapSize, maxMapSize + 1,
   maxMapSize + maxMapSize \div 2, maxMapSize + maxMapSize \div 2 + 1}

\* The records of n syncs of one SKU to n distinct quantities, none of them
\* timeout old yet: all new, all old, or mixed.
Patterns == {"new", "old", "mixed"}
AgeAt(p, i) ==
  CASE p = "new" -> 0
    [] p = "old" -> timeout - 1
    [] OTHER -> i % timeout
Stored(n, p) ==
  [k \in {Key(SkuA, 1, i) : i \in 1..n} |->
     [age |-> AgeAt(p, k[3]), variantIds |-> {Gid(2)}]]
TimersOf(ops) == {[key |-> k, left |-> timeout - ops[k].age] : k \in DOMAIN ops}

\* A handler awaiting findVariantsBySKU under the lock it took.
AtFetch(i, l, q) ==
  [Idle EXCEPT !.pc = "fetch", !.item = i, !.loc = l, !.q = q,
               !.sku = SkuOf(i), !.lockAcquired = TRUE, !.tries = 1]

InitCleanup ==
  /\ version = "class"
  /\ budget \in {p \in Profiles : p.time /\ p.fault > 0}
  /\ OrdersOff
  /\ calc = NoCalc
  /\ request = NoRequest
  /\ level = [i \in Items |-> 0]
  /\ pending = {}
  /\ \E n \in Sizes, p \in Patterns :
        /\ operations = Stored(n, p)
        /\ timers = TimersOf(Stored(n, p))
  /\ \/ /\ handlers = [h \in Slots |-> Idle]
        /\ processingQueue = EmptyMap
     \/ \E a \in 0..LockCap(version) :
          /\ handlers = [h \in Slots |-> IF h = 1 THEN AtFetch(1, 1, 0) ELSE Idle]
          /\ processingQueue = Put(EmptyMap, SkuA, [age |-> a, by |-> 1])
  /\ nExternal = 0
  /\ nRedeliver = 0
  /\ nFaults = 0
  /\ gaveUp = FALSE
  /\ marks = EmptyMap

NextCleanup == Cleanup

SpecCleanup == InitCleanup /\ [][NextCleanup]_vars

(***************************************************************************)
(* shopifyGraphQL on its own: one call, for a query or a mutation, against *)
(* a remote that answers each request with data, with a throttling error,  *)
(* with another top-level error, or not at all (transport failure).        *)
(***************************************************************************)
Kinds == {"query", "mutation"}
Answers == {"data", "throttled", "errors", "transport"}

\* Only the class version loops; the others send one request.
Retries(v) == IF v = "class" THEN retries ELSE 0

\* setTimeout(resolve, 1000 * (i + 1)), in seconds
Backoff(i) == i + 1

\* The throttling branch: throttled && i < retries.
RetriesThrottled(v, answer, i) == answer = "throttled" /\ i < Retries(v)

\* A catch block that always sleeps and goes round again.
RethrowsNever(v, i) == FALSE

\* The catch block: if (i === retries) throw error.
Rethrows(v, i) == i = Retries(v)

InitGraphQL ==
  /\ version \in Versions
  /\ budget \in {p \in Profiles : p.fault > 0}
  /\ OrdersOff
  /\ calc \in {[stage |-> "sending", kind |-> k, i |-> 0, sent |-> 1,
                waits |-> <<>>, answers |-> <<>>, out |-> "none"] : k \in Kinds}
  /\ request = NoRequest
  /\ level = [i \in Items |-> 0]
  /\ pending = {}
  /\ handlers = [h \in Slots |-> Idle]
  /\ operations = EmptyMap
  /\ timers = {}
  /\ processingQueue = EmptyMap
  /\ nExternal = 0
  /\ nRedeliver = 0
  /\ nFaults = 0
  /\ gaveUp = FALSE
  /\ marks = EmptyMap

\* axios.post settles: the body of the try block and, if it throws, the catch.
Answer(answer) ==
  LET c == [calc EXCEPT !.answers = Append(calc.answers, answer)]
      sleep == [c EXCEPT !.stage = "sleeping",
                         !.waits = Append(calc.waits, Backoff(calc.i))]
  IN
  /\ calc.stage = "sending"
  /\ calc' = IF answer = "data"
             THEN [c EXCEPT !.stage = "returned", !.out = "data"]
             ELSE IF RetriesThrottled(version, answer, calc.i) THEN sleep
             ELSE IF Rethrows(version, calc.i)
                  THEN [c EXCEPT !.stage = "threw", !.out = "error"]
                  ELSE sleep
  /\ UNCHANGED <<orderVars, request, trackerVars>>
  /\ UNCHANGED <<version, budget, level, pending, nRedeliver, nFaults>>

\* The sleep ends: the next round of the loop, or the end of the loop and of
\* the function, with nothing returned.
Wake ==
  /\ calc.stage = "sleeping"
  /\ calc' = IF calc.i + 1 <= Retries(version)
             THEN [calc EXCEPT !.stage = "sending", !.i = calc.i + 1,
                               !.sent = calc.sent + 1]
             ELSE [calc EXCEPT !.stage = "returned", !.i = calc.i + 1,
                               !.out = "undefined"]
  /\ UNCHANGED <<orderVars, request, trackerVars>>
  /\ UNCHANGED <<version, budget, level, pending, nRedeliver, nFaults>>

NextGraphQL ==
  \/ \E answer \in Answers : Answer(answer)
  \/ Wake

SpecGraphQL == InitGraphQL /\ [][NextGraphQL]_vars

(***************************************************************************)
(* Claims about the inventory-level-changed flow                           *)
(***************************************************************************)
InFlight(h) == handlers[h].pc \notin {"idle", "done"}
Quiescent == pending = {} /\ \A h \in Slots : handlers[h].pc = "idle"
SameSku(i, j) == SkuOf(i) # NoSku /\ SkuOf(i) = SkuOf(j)

\* C1 (as claimed): once every inventory-level-changed event has been handled
\* and no handler is in flight, all variants sharing a SKU have the same
\* quantity at the location -- here even when no remote call ever failed and
\* no handler dropped its event.
C1_Convergence ==
  (Quiescent /\ nFaults = 0 /\ ~gaveUp) =>
     \A i, j \in Items : SameSku(i, j) => level[i] = level[j]

\* C2 (as claimed): a handler of an event for which markSync was made, after a
\* successful write, less than `timeout` before its isRecentSync check, sends
\* no mutation.
C2_NoOpIdempotence ==
  \A h \in Slots : handlers[h].inWindow => handlers[h].pc \notin {"write", "applied"}

\* C3 (as claimed): no two handlers are at once between a successful
\* acquireLock and their own releaseLock for the same SKU.
Holding(h) == InFlight(h) /\ handlers[h].lockAcquired
C3_LockMutualExclusion ==
  \A g, h \in Slots :
     (g # h /\ Holding(g) /\ Holding(h)) => handlers[g].sku # handlers[h].sku

\* C5: once a handler that acquired the lock has finished, on whatever exit
\* path, the lock map holds no entry it set; and with no handler in flight the
\* lock map is empty.
C5_LockReleased ==
  /\ \A h \in Slots :
        (handlers[h].pc = "done" /\ handlers[h].lockAcquired) =>
           ~(handlers[h].sku \in DOMAIN processingQueue
             /\ processingQueue[handlers[h].sku].by = h)
  /\ (\A h \in Slots : ~InFlight(h)) => processingQueue = EmptyMap

C5_Witness ==
  \E h \in Slots : /\ handlers[h].pc = "done"
                   /\ handlers[h].lockAcquired
                   /\ handlers[h].outcome = "threw"
                   /\ processingQueue = EmptyMap

\* C6: with the pending setTimeout callbacks of markSync as the clock -- the
\* callback of a markSync made at t0 has timeout - (t - t0) ticks left --
\* once no callback for a key has time left (t >= t0 + W for the latest
\* markSync), isRecentSync is false for the key; and a record in the operation
\* map is eventually removed from it.
Keys == {Key(SkuOf(i), l, q) : i \in Items, l \in Locs, q \in Qty}
Elapsed(k) == \A t \in timers : t.key = k => t.left = 0
C6_Expiry ==
  /\ [](\A k \in Keys : Elapsed(k) => ~IsRecentSync(operations, k[1], k[2], k[3]))
  /\ \A k \in Keys : (k \in DOMAIN operations) ~> (k \notin DOMAIN operations)

C6_Witness ==
  \E k \in DOMAIN operations : Elapsed(k) /\ operations[k].age >= timeout

\* C9 (as claimed): every inventory item a mutation targets belongs to a
\* variant whose SKU equals the trimmed SKU of the triggering event.
C9_NoCrossSkuWrites ==
  \A h \in Slots :
     handlers[h].pc \in {"write", "applied"} =>
        \A i \in Targets(handlers[h].updates) : SkuOf(i) = Trim(handlers[h].sku)

\* C10: a handler whose SKU resolves to zero or one variant leaves at that
\* check: it builds no update set, sends no mutation (the remote levels and the
\* pending webhooks stay as they are) and creates no SyncRecord.
C10_SingleSiblingNoOp ==
  [][\A h \in Slots :
       (/\ handlers[h].pc = "fetch"
        /\ handlers'[h].pc # "fetch"
        /\ handlers'[h].outcome # "threw"
        /\ Len(handlers'[h].variants) <= 1)
       => /\ handlers'[h].pc = "done"
          /\ handlers'[h].outcome = "noSiblings"
          /\ handlers'[h].updates = <<>>
          /\ operations' = operations
          /\ timers' = timers
          /\ level' = level
          /\ pending' = pending]_vars

C10_Witness ==
  \E h \in Slots : /\ handlers[h].pc = "done"
                   /\ handlers[h].outcome = "noSiblings"
                   /\ Len(handlers[h].variants) = 1

(***************************************************************************)
(* Claims about the update set (checked under SpecUpdates)                 *)
(***************************************************************************)
\* C4 (as claimed): for a trigger item T on a SKU whose variant set is V,
\* |V| >= 2, the update set targets exactly V minus {T}, each update at the
\* event's location with the event's quantity.
C4_SiblingExclusion ==
  calc.stage = "out" =>
     /\ Targets(calc.updates) = (1..calc.n) \ {calc.item}
     /\ \A k \in 1..Len(calc.updates) :
           /\ calc.updates[k].locationId = calc.loc
           /\ calc.updates[k].quantity = calc.q

(***************************************************************************)
(* Claims about the order flows (checked under SpecOrders)                 *)
(***************************************************************************)
Adjusting(h) == orderHandlers[h].pc \in {"adjust", "adjusted"}
CurrentLine(h) == orderHandlers[h].order.line_items[orderHandlers[h].idx]

C8_OrderDuplicateGuard ==
  \A k \in DOMAIN adjusted : k[2] = "orders/cancelled" => adjusted[k] <= 1

(***************************************************************************)
(* Claims about responses, writes and the lock (checked under Spec)        *)
(***************************************************************************)
\* C13 (as claimed): a request that passed signature verification and payload
\* validation is never answered 500, whatever happens downstream.
C13_NoRetryStatus ==
  \A h \in Slots : handlers[h].item # 0 => handlers[h].res # 500

\* C14 (as claimed): while a handler has a Catalog Client call under way or
\* behind it, the 200 response has already been sent.
C14_EarlyAck ==
  \A h \in Slots : InFlight(h) => handlers[h].res = 200

\* C16 (as claimed): when the handler builds its update set, no sibling whose
\* quantity at the location already equals the event's quantity is in it.
C16_OnlyOutOfSync ==
  [][\A h \in Slots :
       (handlers[h].pc = "fetch" /\ handlers'[h].pc = "write") =>
          \A i \in Targets(handlers'[h].updates) : level[i] # handlers[h].q]_vars

\* C18 (as claimed): the step in which a handler finishes (its finally block)
\* removes no lock entry that a different handler, still in flight, holds.
C18_ReleaseRecheck ==
  [][\A h \in Slots :
       (InFlight(h) /\ handlers'[h].pc = "done") =>
          \A sku \in DOMAIN processingQueue :
             LET g == processingQueue[sku].by
             IN  (g # h /\ Holding(g) /\ handlers[g].sku = sku)
                    => sku \in DOMAIN processingQueue']_vars

\* C19 (as claimed): an acquireLock attempt for a SKU whose lock entry is older
\* than the timeout succeeds.
C19_StaleReclaimed ==
  [][\A h \in Slots :
       (/\ handlers'[h].tries = handlers[h].tries + 1
        /\ handlers'[h].sku \in DOMAIN processingQueue
        /\ processingQueue[handlers'[h].sku].age > timeout)
       => handlers'[h].lockAcquired]_vars

\* C20 (as claimed): an invocation one of whose batches came back with a
\* per-item error list creates no SyncRecord.
C20_RecordOnlyOnSuccess ==
  [][\A h \in Slots :
       (handlers[h].pc = "applied" /\ handlers'[h].pc = "done"
        /\ handlers'[h].hasErrors)
       => operations' = operations /\ timers' = timers]_vars

(***************************************************************************)
(* Claims about the write pipeline (checked under SpecBatches)             *)
(***************************************************************************)
SiblingsOf(r) ==
  {Pop(r.variants[k].inventory_item_id) : k \in 1..Len(r.variants)} \ {r.item}
CeilDiv(a, b) == (a + b - 1) \div b

\* C15: a batch answered with a per-item error list does not end the loop: the
\* next batch is submitted, and so every update has been submitted once the
\* invocation finishes without a throw; and no level changes except to the
\* event's quantity, by a request that carries the item and is applied (no
\* applied batch is rolled back).
C15_BestEffortBatches ==
  /\ [](\A h \in Slots :
          (handlers[h].pc = "done" /\ handlers[h].outcome = "userErrors") =>
             /\ handlers[h].sent = Len(handlers[h].updates)
             /\ \A i \in Targets(handlers[h].updates) :
                   i \in DOMAIN handlers[h].hits /\ handlers[h].hits[i] >= 1)
  /\ [][/\ \A h \in Slots :
             (/\ handlers[h].pc = "applied"
              /\ handlers[h].wr = "userErrors"
              /\ handlers[h].sent + Len(Batch(handlers[h])) < Len(handlers[h].updates))
             => /\ handlers'[h].pc = "write"
                /\ handlers'[h].sent = handlers[h].sent + Len(Batch(handlers[h]))
                /\ level' = level
        /\ \A i \in DOMAIN level :
             level'[i] # level[i] =>
                \E h \in Slots :
                   /\ handlers[h].pc = "write"
                   /\ handlers'[h].wr = "ok"
                   /\ i \in Targets(Batch(handlers[h]))
                   /\ level'[i] = handlers[h].q]_vars

C15_Witness ==
  \E h \in Slots :
     /\ handlers[h].pc = "applied"
     /\ handlers[h].wr = "ok"
     /\ handlers[h].sent = batchSize
     /\ handlers[h].hasErrors
     /\ \A i \in Targets(Batch(handlers[h])) : level[i] = handlers[h].q

\* C17 (as claimed): an invocation that finishes its write has submitted
\* ceil(n / batchSize) requests for its n siblings, and every sibling was in
\* exactly one of them.
C17_BatchPartition ==
  \A h \in Slots :
     (handlers[h].pc = "done" /\ handlers[h].outcome = "synced") =>
        /\ handlers[h].requests =
              CeilDiv(Cardinality(SiblingsOf(handlers[h])), batchSize)
        /\ \A i \in SiblingsOf(handlers[h]) :
              i \in DOMAIN handlers[h].hits /\ handlers[h].hits[i] = 1

(***************************************************************************)
(* Claims about the head of the inventory route (checked under SpecIntake) *)
(***************************************************************************)
Taken == request.stage = "taken"
BadSignature ==
  \/ Len(request.header) = 0
  \/ Len(request.header) # DigestLen
  \/ \E k \in 1..DigestLen : request.header[k] # Base64(Hmac(request.rawBody))[k]
Untouched ==
  /\ operations = EmptyMap
  /\ timers = {}
  /\ processingQueue = EmptyMap
  /\ \A h \in Slots : handlers[h].pc \in {"idle", "done"}

\* C11 (as claimed): a request whose signature header is missing, of the wrong
\* length or different from the body's signature is answered 401, and nothing
\* is asked of the catalog and nothing is put into the tracker.
C11_AuthenticationFailure ==
  (Taken /\ BadSignature) =>
     /\ Untouched
     /\ \A h \in Slots : handlers[h].pc = "done" => handlers[h].res = 401

BadPayload ==
  LET p == Parse(request.rawBody)
  IN  \/ p.inventory_item_id.t = "undefined"
      \/ p.location_id.t = "undefined"
      \/ p.available.t # "number"

\* C12 (as claimed): a correctly signed request in which inventory_item_id or
\* location_id is missing, or available is missing or not a number, is
\* answered 400, and nothing is asked of the catalog, no lock is taken and no
\* record is made.
C12_PayloadValidation ==
  (Taken /\ ~BadSignature /\ BadPayload) =>
     /\ Untouched
     /\ \A h \in Slots : handlers[h].pc = "done" => handlers[h].res = 400

(***************************************************************************)
(* Claims about the order of steps and the exits of the inventory handler  *)
(* (checked under Spec)                                                    *)
(***************************************************************************)
Working(h) == handlers[h].pc \in {"fetch", "write", "applied"}
LockHeld(h) == handlers[h].sku \in DOMAIN processingQueue
Marked(k) ==
  /\ k \in DOMAIN operations'
  /\ k \in DOMAIN operations => operations'[k].age < operations[k].age

\* C21 (as claimed): while a handler of a version that locks is at the variant
\* fetch or the write, the lock map has an entry for its SKU; and a record is
\* made only by a handler whose last batch has been answered, with every
\* update submitted, while that entry is still there.
C21_StepOrdering ==
  [][/\ \A h \in Slots :
          (HasLock(version) /\ Working(h)) => LockHeld(h)
     /\ \A k \in DOMAIN operations' :
          Marked(k) =>
             \E h \in Slots :
                /\ handlers[h].pc = "applied"
                /\ handlers'[h].pc = "done"
                /\ handlers'[h].sent = Len(handlers[h].updates)
                /\ k = Key(handlers[h].sku, handlers[h].loc, handlers[h].q)
                /\ HasLock(version) => LockHeld(h)]_vars

\* C22: no handler makes more than maxRetries passes over the lock; a handler
\* whose passes all found the lock busy ends there, answered 200, having sent
\* no write, and its last step changes neither the lock map nor the operation
\* records, their timers or any level.
Exhausted(r) == r.tries = maxRetries /\ ~r.lockAcquired
C22_LockUnavailableDrop ==
  /\ [](\A h \in Slots :
          /\ handlers[h].tries <= maxRetries
          /\ (handlers[h].pc = "done" /\ Exhausted(handlers[h])) =>
                /\ handlers[h].res = 200
                /\ handlers[h].outcome = "locked"
                /\ handlers[h].requests = 0)
  /\ [][\A h \in Slots :
          (InFlight(h) /\ handlers'[h].pc = "done" /\ Exhausted(handlers'[h])) =>
             /\ processingQueue' = processingQueue
             /\ operations' = operations
             /\ timers' = timers
             /\ level' = level]_vars

C22_Witness ==
  \E g, h \in Slots :
     /\ handlers[h].pc = "done"
     /\ handlers[h].outcome = "locked"
     /\ handlers[h].tries = maxRetries
     /\ Holding(g)
     /\ handlers[g].sku = handlers[h].sku
     /\ LockHeld(g)
     /\ processingQueue[handlers[g].sku].by = g

(***************************************************************************)
(* Claims about markSync (checked under SpecMarkSync)                      *)
(***************************************************************************)
Called == calc.n' = calc.n + 1
Fresh(a) == [age |-> 0, variantIds |-> a.ids]
JustMarked(a) ==
  /\ Key(a.sku, a.loc, a.q) \in DOMAIN operations
  /\ operations[Key(a.sku, a.loc, a.q)] = Fresh(a)
  /\ [key |-> Key(a.sku, a.loc, a.q), left |-> timeout] \in timers

\* C23: a call of markSync leaves one record under its key, new and with the
\* affected ids of this call whatever record was there, and touches no other
\* key; a call that repeats the call just made changes nothing.
C23_MarkSyncIdempotence ==
  [][Called =>
       LET a == calc.last'
           k == Key(a.sku, a.loc, a.q)
       IN  /\ DOMAIN operations' = DOMAIN operations \cup {k}
           /\ operations'[k] = Fresh(a)
           /\ \A x \in DOMAIN operations \ {k} : operations'[x] = operations[x]
           /\ IsRecentSync(operations', a.sku, a.loc, a.q)
           /\ JustMarked(a) => (operations' = operations /\ timers' = timers)]_vars

C23_Witness ==
  /\ calc.stage = "marking"
  /\ calc.n = MaxCalls
  /\ LET a == calc.last
         k == Key(a.sku, a.loc, a.q)
     IN  /\ operations[k] = Fresh(a)
         /\ a.ids = {Gid(2)}
         /\ \E t \in timers : t.key = k /\ t.left < timeout

(***************************************************************************)
(* Claims about the periodic cleanup (checked under SpecCleanup)           *)
(***************************************************************************)
\* C24 (as claimed): right after a cleanup no operation record and no lock is
\* older than the timeout, and the operation-record map holds at most
\* maxMapSize records.
C24_MemoryBound ==
  [][/\ \A k \in DOMAIN operations' : operations'[k].age <= timeout
     /\ \A sku \in DOMAIN processingQueue' : processingQueue'[sku].age <= timeout
     /\ Cardinality(DOMAIN operations') <= maxMapSize]_vars

(***************************************************************************)
(* Claims about shopifyGraphQL (checked under SpecGraphQL)                 *)
(***************************************************************************)
Resent == calc.sent' = calc.sent + 1
LastAnswer == calc.answers[Len(calc.answers)]

\* C25 (as claimed): a mutation is sent again only after an answer that
\* carries a throttling error.
C25_MutationRetryClass ==
  [][(calc.kind = "mutation" /\ Resent) => LastAnswer = "throttled"]_vars

\* C26: a call sends at most retries + 1 requests; the waits it has made are
\* 1 s, 2 s, ... in this order, one before each request after the first; and
\* it ends either returning data, after an answer with data, or throwing,
\* after a failed answer to its last request -- never returning nothing.
C26_BoundedRetries ==
  /\ calc.sent <= retries + 1
  /\ calc.sent = Len(calc.answers) + (IF calc.stage = "sending" THEN 1 ELSE 0)
  /\ \A k \in 1..Len(calc.waits) : calc.waits[k] = k
  /\ Len(calc.waits) = calc.sent - (IF calc.stage = "sleeping" THEN 0 ELSE 1)
  /\ calc.stage = "returned" => (calc.out = "data" /\ LastAnswer = "data")
  /\ calc.stage = "threw" =>
        (calc.out = "error" /\ LastAnswer # "data"
         /\ calc.sent = Retries(version) + 1)

C26_Witness ==
  /\ calc.stage = "threw"
  /\ calc.sent = retries + 1
  /\ calc.waits = <<1, 2>>
  /\ calc.answers = <<"transport", "throttled", "errors">>

(***************************************************************************)
(* Claims about the exits of the inventory handler (checked under Spec)    *)
(***************************************************************************)
\* C27: the handler of an event for an item without SKU never gets past the
\* lookup: it takes no lock and sends no write; once the lookup has answered
\* it ends with 200; and that step changes neither a level nor the lock map
\* nor the operation records and their timers.
Skuless(h) == handlers[h].item # 0 /\ SkuOf(handlers[h].item) = NoSku
C27_LookupMissNoOp ==
  /\ [](\A h \in Slots :
          Skuless(h) =>
             /\ handlers[h].pc \in {"lookup", "done"}
             /\ ~handlers[h].lockAcquired
             /\ handlers[h].tries = 0
             /\ handlers[h].requests = 0
             /\ (handlers[h].pc = "done" /\ handlers[h].outcome # "threw") =>
                   (handlers[h].outcome = "nosku" /\ handlers[h].res = 200))
  /\ [][\A h \in Slots :
          (Skuless(h) /\ handlers[h].pc = "lookup" /\ handlers'[h].pc = "done") =>
             /\ level' = level
             /\ processingQueue' = processingQueue
             /\ operations' = operations
             /\ timers' = timers]_vars

C27_Witness ==
  \E h \in Slots :
     /\ Skuless(h)
     /\ handlers[h].pc = "done"
     /\ handlers[h].outcome = "nosku"
     /\ handlers[h].res = 200
     /\ handlers[h].sku = NoSku

(***************************************************************************)
(* Claims about line items (checked under SpecOrders)                      *)
(***************************************************************************)
Lacking(order, line) ==
  line.sku = NoSku \/ Location(order) = 0 \/ line.quantity = 0
Calling(h) == orderHandlers[h].pc \in {"find", "adjust", "adjusted"}

\* C28 (as claimed): no remote call is made for a line item without SKU,
\* location or quantity; and an order handled to its end, with no remote
\* failure, has had every other line item whose SKU is shared adjusted.
C28_LineItemSkipping ==
  \A h \in Slots :
     LET r == orderHandlers[h] IN
     /\ Calling(h) => ~Lacking(r.order, r.order.line_items[r.idx])
     /\ (r.pc = "done" /\ r.outcome = "complete" /\ nFaults = 0) =>
           \A k \in 1..Len(r.order.line_items) :
              LET line == r.order.line_items[k] IN
              (~Lacking(r.order, line) /\ ~TooFew(FindVariantsBySKU(line.sku)))
                 => <<r.order.id, r.order.topic, k, 0>> \in DOMAIN adjusted

(***************************************************************************)
(* Claims about the soft deadline (Spec) and the echoes (EchoSpec)         *)
(***************************************************************************)
\* C29: a handler of the class version whose variant fetch is answered when
\* more than the soft deadline has elapsed ends there with 200: it sends no
\* write, no level changes, no record is made, and the lock map holds no
\* entry it set.
C29_SoftTimeout ==
  [][\A h \in Slots :
       (/\ version = "class"
        /\ handlers[h].pc = "fetch"
        /\ handlers[h].elapsed > SoftDeadline
        /\ handlers'[h].pc # "fetch")
       => /\ handlers'[h].pc = "done"
          /\ handlers'[h].res = 200
          /\ handlers'[h].requests = 0
          /\ level' = level
          /\ operations' = operations
          /\ timers' = timers
          /\ ~(/\ handlers[h].sku \in DOMAIN processingQueue'
               /\ processingQueue'[handlers[h].sku].by = h)]_vars

C29_Witness ==
  \E h \in Slots :
     /\ handlers[h].pc = "done"
     /\ handlers[h].outcome = "timeout"
     /\ handlers[h].elapsed > SoftDeadline
     /\ handlers[h].lockAcquired
     /\ handlers[h].res = 200
     /\ handlers[h].sku \notin DOMAIN processingQueue

\* C30 (as claimed; checked under EchoSpec): after the one external change,
\* with an echo for every level written, delivered at any time, the system
\* comes to rest for good: no webhook pending, no handler in flight.
C30_NoFeedbackLoop == <>[]Quiescent

(***************************************************************************)
(* Claims about the suppression window (checked under Spec, SpecMarkSync)  *)
(***************************************************************************)
\* C31 (as claimed): no handler has a mutation for (sku, location, q) applied
\* while operations holds a record of exactly that key younger than
\* `timeout` -- a handler that passed isRecentSync before the record was
\* made, and then waited, included.
C31_RevalidatedAtWrite ==
  [][\A h \in Slots :
       (handlers[h].pc = "write" /\ handlers'[h].pc = "applied")
       => ~IsRecentSync(operations, handlers[h].sku, handlers[h].loc,
                        handlers[h].q)]_vars

\* C32 (as claimed; checked under SpecMarkSync): a record stays in operations,
\* and isRecentSync stays true for its key, until `timeout` has passed since
\* the markSync that wrote it last -- whatever timer an earlier markSync for
\* the same key has left behind.
C32_FullWindow ==
  [][\A k \in DOMAIN operations :
       operations[k].age < timeout =>
          (k \in DOMAIN operations' /\ IsRecentSync(operations, k[1], k[2], k[3]))]_vars

(***************************************************************************)
(* Claims about an order's effect (checked under SpecRoundTrip, SpecSale)  *)
(***************************************************************************)
OrdersHandled ==
  orderQueue = {} /\ \A h \in Slots : orderHandlers[h].pc = "idle"

\* C33: once orders/create and orders/cancelled of one order have both been
\* handled, each delivered once and with no remote call failing, the deltas
\* this service applied to any inventory item add up to zero (all levels
\* started at 0 and only the order handlers write here).
C33_OrderRoundTrip ==
  (OrdersHandled /\ nFaults = 0 /\ nRedeliver = 0) =>
     \A i \in Items : level[i] = 0

C33_Witness ==
  /\ OrdersHandled /\ nFaults = 0 /\ nRedeliver = 0
  /\ \E k, j \in DOMAIN adjusted :
        /\ k[2] = "orders/create" /\ j[2] = "orders/cancelled"
        /\ k[3] = 2 /\ j[3] = 2
  /\ \A i \in Items : level[i] = 0

\* C34 (as claimed; checked under SpecSale): the platform has taken the
\* quantity bought off the purchased variant; once orders/create and every
\* inventory_levels/update that followed have been handled (no failure, no
\* redelivery, no event dropped for the lock), every variant of the SKU
\* stands at its level before the order less the quantity bought.
C34_OrderNetEffect ==
  (nExternal = 1 /\ OrdersHandled /\ Quiescent /\ nFaults = 0 /\ ~gaveUp) =>
     \A i \in Sharing(SkuA) : level[i] = PreOrder - Bought

====
